---- MODULE Spec2Model ----
(***************************************************************************)
(* Model of the client-side storage engine of LibreChat:                   *)
(*   client/src/utils/clientConfiguration.ts  (class ClientStorage)        *)
(*   client/src/data-provider/Messages/clientQueries.ts (facade)           *)
(*                                                                         *)
(* The three IndexedDB object stores are functions from primary key to the *)
(* raw record; localStorage holds the persisted master key.  Timestamps    *)
(* are natural numbers, 0 standing for an absent (undefined) value, which  *)
(* is also how the code tests them (x || default).  Absent strings are the *)
(* value Undef.  An optional encrypted blob is a sequence of length 0 or 1.*)
(***************************************************************************)
EXTENDS Integers, Sequences, FiniteSets, TLC

VARIABLES
    convs,          \* object store 'conversations': conversationId -> record
    msgs,           \* object store 'messages': messageId -> record
    settingsStore,  \* object store 'settings': key 'global' -> value
    localKey,       \* localStorage item 'librechat_master_key' (NoKey = absent)
    db,             \* this.db: "closed" (null) or "open"
    encryptionKey,  \* this.encryptionKey (NoKey = null)
    isInitialized,  \* this.isInitialized
    initDepth,      \* number of initializeStorage() calls in flight (nested)
    nextKey,        \* the next value WordArray.random() hands out
    now,            \* Date.now()
    run,            \* number of page loads so far
    lastOp,         \* the operation that completed last
    lastArg,        \* its id argument
    lastErr,        \* the error it threw ("none" when it returned)
    lastCount,      \* records it put (a store), messages it deleted (a delete)
    deletedIds,     \* history: ids deleted and not stored again since
    tampered,       \* history: record ids whose ciphertext was altered
    written,        \* history: id -> payload last written under encryption in this run
    pager,          \* a client following nextCursor page by page
    snapshot,       \* the backup blob last returned by exportData (<<>> = none)
    tx,             \* the readwrite transaction of a deleteConversation in
                    \* progress (<<>> = none): its view of the two stores
    pending         \* a call suspended at an await before its put (<<>> =
                    \* none): a getConversation with the record it read, or
                    \* a storeMessage with the message it was given

vars == <<convs, msgs, settingsStore, localKey, db, encryptionKey, isInitialized,
          initDepth, nextKey, now, run, lastOp, lastArg, lastErr, lastCount,
          deletedIds, tampered, written, pager, snapshot, tx, pending>>

----------------------------------------------------------------------------
(* Bounds *)
MaxInitDepth == 4   \* nested initializeStorage() calls before openDB must fail
MaxKeys      == 3   \* random keys generated over all runs
MaxTime      == 2   \* largest clock value
MaxRuns      == 2   \* page loads

(* Small value sets *)
Undef    == "undefined"
ConvIds  == {"c1", "c2", "c3"}
MsgIds   == {"m1", "m2", "m3"}
Titles   == {"a", "b"}
Prefixes == {"p"}
Texts    == {"x", "y"}
NoKey    == 0

(* Order of the primary keys (IndexedDB compares strings lexicographically) *)
KeyRank(id) ==
    CASE id = "c1" -> 1 [] id = "c2" -> 2 [] id = "c3" -> 3
      [] id = "m1" -> 1 [] id = "m2" -> 2 [] id = "m3" -> 3 [] OTHER -> 0

----------------------------------------------------------------------------
(* Object-store primitives *)

StorePutUnderNewKey(store, key, rec) ==
    LET free == {"c1", "c2", "c3", "m1", "m2", "m3"} \ (DOMAIN store \cup {key})
        k    == IF key \in DOMAIN store /\ free # {}
                THEN CHOOSE x \in free : TRUE ELSE key
    IN  [j \in (DOMAIN store) \cup {k} |-> IF j = k THEN rec ELSE store[j]]
StorePut(store, key, rec) ==
    [k \in (DOMAIN store) \cup {key} |-> IF k = key THEN rec ELSE store[k]]

StoreDeleteKeys(store, keys) ==
    [k \in (DOMAIN store) \ keys |-> store[k]]

EmptyStore == [k \in {} |-> 0]

----------------------------------------------------------------------------
(* Settings *)

DefaultMaxStorageSize == 100 * 1024 * 1024

DefaultSettings ==
    [encryptionEnabled |-> FALSE, backupEnabled |-> TRUE, masterKeyHash |-> 0,
     lastBackup |-> 0, maxStorageSize |-> DefaultMaxStorageSize]

\* getSettings(): the stored value, or the defaults when there is no record
GetSettings ==
    IF "global" \in DOMAIN settingsStore THEN settingsStore["global"]
    ELSE DefaultSettings

\* updateSettings(s): puts s as the whole value of the 'global' record
UpdatedSettingsStore(s) == StorePut(settingsStore, "global", s)

\* CryptoJS.SHA256(key): a one-way injective image of the key
SHA256(k) == 2 * k + 1

----------------------------------------------------------------------------
(* Encryption *)

\* JSON.stringify of the sensitive-field object: undefined members are dropped
JSONStringify(obj) ==
    [f \in {g \in DOMAIN obj : obj[g] # Undef} |-> obj[f]]

\* encrypt(data): AES-CBC of the JSON text under this.encryptionKey.  k is the
\* key the ciphertext was made with, pt its plaintext, intact whether the
\* ciphertext still decrypts to well-formed JSON.
Encrypt(data, key) ==
    [k |-> key, pt |-> JSONStringify(data), intact |-> TRUE]

\* decrypt(blob): throws unless the key is the one the blob was made with and
\* the bytes unpad/decode/parse; there is no checksum to compare.
DecryptThrows(blob, key) == key = NoKey \/ blob.k # key \/ ~blob.intact
Decrypt(blob, key) == blob.pt

\* {...stored, ...decrypted, encryptedData: undefined}
MergeField(stored, dec, f) == IF f \in DOMAIN dec THEN dec[f] ELSE stored[f]


----------------------------------------------------------------------------
(* Records as the callers pass them and as the stores hold them *)

\* A TConversation object.  conversationId Undef = the caller gave none.
ConvObject(id, title, prefix, createdAt, updatedAt, blob) ==
    [conversationId |-> id, title |-> title, promptPrefix |-> prefix,
     createdAt |-> createdAt, updatedAt |-> updatedAt, lastAccessed |-> 0,
     encryptedData |-> blob]

\* A TMessage object.
MsgObject(id, conv, text, content, createdAt, blob) ==
    [messageId |-> id, conversationId |-> conv, text |-> text, content |-> content,
     createdAt |-> createdAt, encryptedData |-> blob]

ConvSensitive == {"title", "promptPrefix"}
MsgSensitive  == {"text", "content"}

\* The reader's half of getConversation / getConversations /
\* getMessagesByConversationId: decrypt the blob when there is one and a key is
\* loaded, and lay the decrypted members over the stored record; a decrypt that
\* throws is caught and the stored record is handed back as it is.
ReadRecordWhenEnabled(stored, sensitive) ==
    IF GetSettings.encryptionEnabled
       /\ stored.encryptedData # <<>> /\ encryptionKey # NoKey
       /\ ~DecryptThrows(stored.encryptedData[1], encryptionKey)
    THEN LET dec == Decrypt(stored.encryptedData[1], encryptionKey)
         IN  [f \in DOMAIN stored |->
                 IF f = "encryptedData" THEN <<>>
                 ELSE IF f \in sensitive THEN MergeField(stored, dec, f)
                 ELSE stored[f]]
    ELSE stored
ReadRecord(stored, sensitive) ==
    IF stored.encryptedData # <<>> /\ encryptionKey # NoKey
       /\ ~DecryptThrows(stored.encryptedData[1], encryptionKey)
    THEN LET dec == Decrypt(stored.encryptedData[1], encryptionKey)
         IN  [f \in DOMAIN stored |->
                 IF f = "encryptedData" THEN <<>>
                 ELSE IF f \in sensitive THEN MergeField(stored, dec, f)
                 ELSE stored[f]]
    ELSE stored

\* The writer's half of storeConversation / storeMessage: with encryption
\* enabled and a key loaded the sensitive members move into a fresh blob and
\* are deleted from the record; otherwise the record is stored as passed.
SealRecordDeleteFirst(rec, sensitive) ==
    IF GetSettings.encryptionEnabled /\ encryptionKey # NoKey
    THEN [f \in DOMAIN rec |->
             IF f = "encryptedData"
             THEN <<Encrypt([g \in sensitive |-> Undef], encryptionKey)>>
             ELSE IF f \in sensitive THEN Undef
             ELSE rec[f]]
    ELSE rec
SealRecord(rec, sensitive) ==
    IF GetSettings.encryptionEnabled /\ encryptionKey # NoKey
    THEN [f \in DOMAIN rec |->
             IF f = "encryptedData"
             THEN <<Encrypt([g \in sensitive |-> rec[g]], encryptionKey)>>
             ELSE IF f \in sensitive THEN Undef
             ELSE rec[f]]
    ELSE rec

----------------------------------------------------------------------------
(* Initial state: the module has just constructed the singleton; the        *)
(* constructor's initializeStorage() is awaiting openDB.                    *)

\* acc: the ids of the pages read so far; clean: no write since the first page;
\* stable: the conversations that were in the index at the first page and
\* have been there with the same sort key ever since; named: the ids that
\* came back as a nextCursor
NoPager ==
    [active |-> FALSE, sortBy |-> "updatedAt", sortOrder |-> "desc", limit |-> 0,
     cursor |-> Undef, acc |-> <<>>, done |-> FALSE, clean |-> TRUE, calls |-> 0,
     stable |-> {}, named |-> {}]

Init ==
    /\ convs = EmptyStore
    /\ msgs = EmptyStore
    /\ settingsStore = EmptyStore
    /\ localKey = NoKey
    /\ db = "closed"
    /\ encryptionKey = NoKey
    /\ isInitialized = FALSE
    /\ initDepth = 1
    /\ nextKey = 1
    /\ now = 1
    /\ run = 1
    /\ lastOp = "constructor"
    /\ lastArg = Undef
    /\ lastErr = "none"
    /\ lastCount = 0
    /\ deletedIds = {}
    /\ tampered = {}
    /\ written = EmptyStore
    /\ pager = NoPager
    /\ snapshot = <<>>
    /\ tx = <<>>
    /\ pending = <<>>

\* Every public operation first awaits ensureInitialized(); the model lets an
\* operation run once the initialization it waits for has settled.
Ready == isInitialized /\ initDepth = 0

Done(op, arg, err, count) ==
    /\ lastOp' = op
    /\ lastArg' = arg
    /\ lastErr' = err
    /\ lastCount' = count

----------------------------------------------------------------------------
(* Initialization: initializeStorage -> initializeEncryption -> getSettings *)
(* -> ensureInitialized -> (isInitialized still false) initializeStorage... *)

\* openDB resolves in the innermost initializeStorage(): it goes on to
\* initializeEncryption(), whose getSettings() awaits ensureInitialized(),
\* which finds isInitialized false and calls initializeStorage() again.
OpenDBSucceeds ==
    /\ initDepth >= 1
    /\ ~isInitialized
    /\ initDepth < MaxInitDepth
    /\ db' = "open"
    /\ initDepth' = initDepth + 1
    /\ UNCHANGED <<convs, msgs, settingsStore, localKey, encryptionKey,
                   isInitialized, nextKey, now, run, lastOp, lastArg, lastErr, lastCount,
                   deletedIds, tampered, written, pager, snapshot, tx, pending>>

\* openDB rejects in the innermost initializeStorage(), which rethrows.  If a
\* caller initializeStorage() is waiting below it, that one's getSettings()
\* throws, its initializeEncryption() catches, sets the key to null, and the
\* caller completes with isInitialized = true.  The outermost call has no
\* caller: its promise rejects.
OpenDBFails ==
    /\ initDepth >= 1
    /\ ~isInitialized
    /\ IF initDepth = 1
       THEN /\ initDepth' = 0
            /\ Done("initializeStorage", Undef, "InitializationError", 0)
            /\ UNCHANGED <<encryptionKey, isInitialized>>
       ELSE /\ initDepth' = initDepth - 2
            /\ encryptionKey' = NoKey
            /\ isInitialized' = TRUE
            /\ Done("initializeStorage", Undef, "none", 0)
    /\ UNCHANGED <<convs, msgs, settingsStore, localKey, db, nextKey, now, run,
                   deletedIds, tampered, written, pager, snapshot, tx, pending>>

\* initializeEncryption() of an initializeStorage() whose nested call has
\* returned: getSettings() reads the record, then one of three branches.
InitializeEncryption ==
    LET settings == GetSettings IN
    IF ~settings.encryptionEnabled
    THEN \* set up encryption by default: new key, kept in memory only
         /\ nextKey <= MaxKeys
         /\ encryptionKey' = nextKey
         /\ nextKey' = nextKey + 1
         /\ settingsStore' = UpdatedSettingsStore(
                [settings EXCEPT !.encryptionEnabled = TRUE,
                                 !.masterKeyHash = SHA256(nextKey)])
         /\ UNCHANGED localKey
    ELSE IF settings.masterKeyHash # 0
    THEN IF localKey # NoKey /\ SHA256(localKey) = settings.masterKeyHash
         THEN /\ encryptionKey' = localKey
              /\ UNCHANGED <<nextKey, settingsStore, localKey>>
         ELSE \* the stored key is missing or invalid: generate a new one
              /\ nextKey <= MaxKeys
              /\ encryptionKey' = nextKey
              /\ nextKey' = nextKey + 1
              /\ localKey' = nextKey
              /\ settingsStore' = UpdatedSettingsStore(
                     [settings EXCEPT !.masterKeyHash = SHA256(nextKey)])
    ELSE UNCHANGED <<encryptionKey, nextKey, settingsStore, localKey>>

InitFrameResumes ==
    /\ initDepth >= 1
    /\ isInitialized
    /\ InitializeEncryption
    /\ initDepth' = initDepth - 1
    /\ Done("initializeStorage", Undef, "none", 0)
    /\ UNCHANGED <<convs, msgs, db, isInitialized, now, run,
                   deletedIds, tampered, written, pager, snapshot, tx, pending>>

\* A public operation called while nothing is initialized and no
\* initialization is in flight: its ensureInitialized() starts one.
EnsureInitialized ==
    /\ ~isInitialized
    /\ initDepth = 0
    /\ initDepth' = 1
    /\ UNCHANGED <<convs, msgs, settingsStore, localKey, db, encryptionKey,
                   isInitialized, nextKey, now, run, lastOp, lastArg, lastErr, lastCount,
                   deletedIds, tampered, written, pager, snapshot, tx, pending>>

\* The page is loaded again: memory is reset, the stores and localStorage stay,
\* a transaction that had not completed is aborted by the engine, a suspended
\* call is gone with the page, and the new
\* singleton's constructor starts initializeStorage().
Reload ==
    /\ run < MaxRuns
    /\ run' = run + 1
    /\ db' = "closed"
    /\ encryptionKey' = NoKey
    /\ isInitialized' = FALSE
    /\ initDepth' = 1
    /\ written' = EmptyStore
    /\ pager' = NoPager
    /\ snapshot' = <<>>
    /\ tx' = <<>>
    /\ pending' = <<>>
    /\ Done("constructor", Undef, "none", 0)
    /\ UNCHANGED <<convs, msgs, settingsStore, localKey, nextKey, now,
                   deletedIds, tampered>>

\* Date.now() advances
Tick ==
    /\ now < MaxTime
    /\ now' = now + 1
    /\ UNCHANGED <<convs, msgs, settingsStore, localKey, db, encryptionKey,
                   isInitialized, initDepth, nextKey, run, lastOp, lastArg,
                   lastErr, lastCount, deletedIds, tampered, written, pager, snapshot, tx, pending>>


----------------------------------------------------------------------------
(* Pure reads *)

\* What getConversation(id) resolves to: <<>> is null
GetConversationResult(id) ==
    IF id \in DOMAIN convs THEN <<ReadRecord(convs[id], ConvSensitive)>> ELSE <<>>

\* An IndexedDB index of the conversations store in ascending order: records
\* without a value for the key path are not in the index; equal keys are
\* ordered by primary key.
IndexBefore(x, y, sortBy) ==
    \/ convs[x][sortBy] < convs[y][sortBy]
    \/ convs[x][sortBy] = convs[y][sortBy] /\ KeyRank(x) <= KeyRank(y)

RECURSIVE SortedIds(_, _)
SortedIds(S, sortBy) ==
    IF S = {} THEN <<>>
    ELSE LET m == CHOOSE x \in S : \A y \in S : IndexBefore(x, y, sortBy)
         IN  <<m>> \o SortedIds(S \ {m}, sortBy)

Reverse(seq) == [i \in 1..Len(seq) |-> seq[Len(seq) + 1 - i]]

\* index.openCursor(null, sortOrder === 'desc' ? 'prev' : 'next')
IndexCursorAlwaysNext(sortBy, sortOrder) ==
    SortedIds({id \in DOMAIN convs : convs[id][sortBy] # 0}, sortBy)
IndexCursor(sortBy, sortOrder) ==
    LET asc == SortedIds({id \in DOMAIN convs : convs[id][sortBy] # 0}, sortBy)
    IN  IF sortOrder = "desc" THEN Reverse(asc) ELSE asc

\* The while loop of getConversations over the cursor positions idx[i..]
RECURSIVE ScanIndex(_, _, _, _, _, _)
ScanIndex(idx, i, cursor, limit, shouldStart, out) ==
    IF i > Len(idx) \/ Len(out) >= limit
    THEN [conversations |-> out,
          nextCursor |-> IF i <= Len(idx) THEN idx[i] ELSE Undef]
    ELSE IF ~shouldStart /\ idx[i] = cursor
         THEN ScanIndex(idx, i + 1, cursor, limit, TRUE, out)
         ELSE IF shouldStart
              THEN ScanIndex(idx, i + 1, cursor, limit, TRUE,
                        Append(out, ReadRecord(convs[idx[i]], ConvSensitive)))
              ELSE ScanIndex(idx, i + 1, cursor, limit, FALSE, out)

\* getConversations({cursor, limit, sortBy, sortOrder}); cursor Undef = none
GetConversationsIgnoresCursor(cursor, limit, sortBy, sortOrder) ==
    ScanIndex(IndexCursor(sortBy, sortOrder), 1, Undef, limit, TRUE, <<>>)
GetConversations(cursor, limit, sortBy, sortOrder) ==
    ScanIndex(IndexCursor(sortBy, sortOrder), 1, cursor, limit, cursor = Undef, <<>>)

\* messages.sort((a, b) => a.createdAt - b.createdAt): a stable insertion
RECURSIVE InsertByCreatedAt(_, _)
InsertByCreatedAt(sorted, m) ==
    IF sorted = <<>> THEN <<m>>
    ELSE IF sorted[Len(sorted)].createdAt <= m.createdAt THEN Append(sorted, m)
    ELSE Append(InsertByCreatedAt(SubSeq(sorted, 1, Len(sorted) - 1), m),
                sorted[Len(sorted)])

RECURSIVE SortByCreatedAt(_, _)
SortByCreatedAt(seq, n) ==
    IF n = 0 THEN <<>>
    ELSE InsertByCreatedAt(SortByCreatedAt(seq, n - 1), seq[n])

\* The cursor over the 'conversationId' index restricted to one conversation:
\* the matching messages in primary-key order
RECURSIVE MessageIdsInKeyOrder(_)
MessageIdsInKeyOrder(S) ==
    IF S = {} THEN <<>>
    ELSE LET m == CHOOSE x \in S : \A y \in S : KeyRank(x) <= KeyRank(y)
         IN  <<m>> \o MessageIdsInKeyOrder(S \ {m})

MessageIdsOf(conversationId) ==
    {m \in DOMAIN msgs : msgs[m].conversationId = conversationId}

\* getMessagesByConversationId(conversationId)
GetMessagesByConversationIdUnsorted(conversationId) ==
    LET ids  == MessageIdsInKeyOrder(MessageIdsOf(conversationId))
    IN  [i \in 1..Len(ids) |-> ReadRecord(msgs[ids[i]], MsgSensitive)]
GetMessagesByConversationId(conversationId) ==
    LET ids  == MessageIdsInKeyOrder(MessageIdsOf(conversationId))
        read == [i \in 1..Len(ids) |-> ReadRecord(msgs[ids[i]], MsgSensitive)]
    IN  SortByCreatedAt(read, Len(read))

\* getStorageStats()
GetStorageStats ==
    [conversationCount |-> Cardinality(DOMAIN convs),
     messageCount |-> Cardinality(DOMAIN msgs),
     estimatedSizeBytes |-> Cardinality(DOMAIN convs) * 1000
                            + Cardinality(DOMAIN msgs) * 500]


----------------------------------------------------------------------------
(* History kept for the properties *)

\* a write to the conversations store while a client is between two pages
PagerSeesWrite ==
    pager' = IF pager.active
             THEN [pager EXCEPT
                      !.clean = FALSE,
                      !.stable = {id \in @ :
                                     /\ id \in DOMAIN convs'
                                     /\ convs'[id][pager.sortBy]
                                            = convs[id][pager.sortBy]}]
             ELSE pager

\* the sensitive members a writer put under encryption, by record id
Remember(id, rec, sensitive) ==
    IF GetSettings.encryptionEnabled /\ encryptionKey # NoKey
    THEN StorePut(written, id, [f \in sensitive |-> rec[f]])
    ELSE StoreDeleteKeys(written, {id})

----------------------------------------------------------------------------
(* Conversations *)

\* storeConversation(conversation)
StoredConversation(conversation) ==
    SealRecord([conversation EXCEPT
                   !.lastAccessed = now,
                   !.updatedAt = IF conversation.updatedAt # 0
                                 THEN conversation.updatedAt ELSE now],
               ConvSensitive)

StoreConversation(conversation) ==
    /\ Ready
    /\ IF conversation.conversationId = Undef
       THEN \* db.put rejects: the record has no value at the key path
            /\ Done("storeConversation", Undef, "DataError", 0)
            /\ UNCHANGED <<convs, deletedIds, tampered, written, pager>>
       ELSE /\ convs' = StorePut(convs, conversation.conversationId,
                                 StoredConversation(conversation))
            /\ Done("storeConversation", conversation.conversationId, "none", 1)
            /\ deletedIds' = deletedIds \ {conversation.conversationId}
            /\ tampered' = tampered \ {conversation.conversationId}
            /\ written' = Remember(conversation.conversationId, conversation,
                                   ConvSensitive)
            /\ PagerSeesWrite
    /\ UNCHANGED <<msgs, settingsStore, localKey, db, encryptionKey, isInitialized,
                   initDepth, nextKey, now, run, snapshot, tx, pending>>

\* getConversation(conversationId): null when there is no record; otherwise the
\* record is put back with lastAccessed = now and returned decrypted
GetConversationTouchesUpdatedAt(conversationId) ==
    /\ Ready
    /\ IF conversationId \in DOMAIN convs
       THEN /\ convs' = [convs EXCEPT ![conversationId].lastAccessed = now,
                                      ![conversationId].updatedAt = now]
            /\ PagerSeesWrite
       ELSE UNCHANGED <<convs, pager>>
    /\ Done("getConversation", conversationId, "none", 0)
    /\ UNCHANGED <<msgs, settingsStore, localKey, db, encryptionKey, isInitialized,
                   initDepth, nextKey, now, run, deletedIds, tampered, written,
                   snapshot, tx, pending>>
GetConversation(conversationId) ==
    /\ Ready
    /\ IF conversationId \in DOMAIN convs
       THEN /\ convs' = [convs EXCEPT ![conversationId].lastAccessed = now]
            /\ PagerSeesWrite
       ELSE UNCHANGED <<convs, pager>>
    /\ Done("getConversation", conversationId, "none", 0)
    /\ UNCHANGED <<msgs, settingsStore, localKey, db, encryptionKey, isInitialized,
                   initDepth, nextKey, now, run, deletedIds, tampered, written,
                   snapshot, tx, pending>>

\* getConversation(conversationId) request by request.  db.get and db.put are
\* two transactions of their own; the method is suspended between them and
\* other calls run.  A transaction on the conversations store waits while a
\* readwrite transaction over it is live.
\* the get: null when there is no record, otherwise the record is held
BeginGetConversation(conversationId) ==
    /\ Ready
    /\ tx = <<>>
    /\ pending = <<>>
    /\ IF conversationId \in DOMAIN convs
       THEN /\ pending' = <<[op |-> "getConversation",
                             conversationId |-> conversationId,
                             stored |-> convs[conversationId]]>>
            /\ UNCHANGED <<lastOp, lastArg, lastErr, lastCount>>
       ELSE /\ pending' = <<>>
            /\ Done("getConversation", conversationId, "none", 0)
    /\ UNCHANGED <<convs, msgs, settingsStore, localKey, db, encryptionKey,
                   isInitialized, initDepth, nextKey, now, run, deletedIds,
                   tampered, written, pager, snapshot, tx>>

\* stored.lastAccessed = Date.now(); db.put(stored): the put writes the
\* record that was read
FinishGetConversation ==
    /\ Ready
    /\ tx = <<>>
    /\ pending # <<>>
    /\ pending[1].op = "getConversation"
    /\ convs' = StorePut(convs, pending[1].conversationId,
                         [pending[1].stored EXCEPT !.lastAccessed = now])
    /\ pending' = <<>>
    /\ Done("getConversation", pending[1].conversationId, "none", 0)
    /\ PagerSeesWrite
    /\ UNCHANGED <<msgs, settingsStore, localKey, db, encryptionKey,
                   isInitialized, initDepth, nextKey, now, run, deletedIds,
                   tampered, written, snapshot, tx>>

\* deleteConversation(conversationId): one transaction over both stores
DeleteConversationKeepsMessages(conversationId) ==
    /\ Ready
    /\ convs' = StoreDeleteKeys(convs, {conversationId})
    /\ msgs' = msgs
    /\ Done("deleteConversation", conversationId, "none",
            Cardinality(MessageIdsOf(conversationId)))
    /\ deletedIds' = deletedIds \cup {conversationId}
    /\ tampered' = tampered \ ({conversationId} \cup MessageIdsOf(conversationId))
    /\ written' = StoreDeleteKeys(written,
                      {conversationId} \cup MessageIdsOf(conversationId))
    /\ PagerSeesWrite
    /\ UNCHANGED <<settingsStore, localKey, db, encryptionKey, isInitialized,
                   initDepth, nextKey, now, run, snapshot, tx, pending>>
DeleteConversation(conversationId) ==
    /\ Ready
    /\ convs' = StoreDeleteKeys(convs, {conversationId})
    /\ msgs' = StoreDeleteKeys(msgs, MessageIdsOf(conversationId))
    /\ Done("deleteConversation", conversationId, "none",
            Cardinality(MessageIdsOf(conversationId)))
    /\ deletedIds' = deletedIds \cup {conversationId}
    /\ tampered' = tampered \ ({conversationId} \cup MessageIdsOf(conversationId))
    /\ written' = StoreDeleteKeys(written,
                      {conversationId} \cup MessageIdsOf(conversationId))
    /\ PagerSeesWrite
    /\ UNCHANGED <<settingsStore, localKey, db, encryptionKey, isInitialized,
                   initDepth, nextKey, now, run, snapshot, tx, pending>>

----------------------------------------------------------------------------
(* deleteConversation request by request.  All its requests go to one       *)
(* readwrite transaction over both stores: they change the transaction's    *)
(* view, which replaces the stores when the transaction completes and is    *)
(* dropped when it aborts or the page goes away.  The engine starts no      *)
(* other transaction on these stores while this one is live.                *)

\* db.transaction([conversations, messages], 'readwrite'), the delete of the
\* conversation record and the cursor opened on the conversationId index
BeginDeleteConversationOutsideTransaction(conversationId) ==
    /\ Ready
    /\ tx = <<>>
    /\ convs' = StoreDeleteKeys(convs, {conversationId})
    /\ tx' = <<[conversationId |-> conversationId,
                convs |-> StoreDeleteKeys(convs, {conversationId}),
                msgs |-> msgs,
                todo |-> MessageIdsOf(conversationId)]>>
    /\ UNCHANGED <<msgs, settingsStore, localKey, db, encryptionKey,
                   isInitialized, initDepth, nextKey, now, run, lastOp, lastArg,
                   lastErr, lastCount, deletedIds, tampered, written, pager,
                   snapshot, pending>>
BeginDeleteConversation(conversationId) ==
    /\ Ready
    /\ tx = <<>>
    /\ tx' = <<[conversationId |-> conversationId,
                convs |-> StoreDeleteKeys(convs, {conversationId}),
                msgs |-> msgs,
                todo |-> MessageIdsOf(conversationId)]>>
    /\ UNCHANGED <<convs, msgs, settingsStore, localKey, db, encryptionKey,
                   isInitialized, initDepth, nextKey, now, run, lastOp, lastArg,
                   lastErr, lastCount, deletedIds, tampered, written, pager,
                   snapshot, pending>>

\* cursor.delete() and cursor.continue() on the message the cursor stands on
DeleteNextMessage ==
    /\ tx # <<>>
    /\ tx[1].todo # {}
    /\ LET m == CHOOSE x \in tx[1].todo :
                    \A y \in tx[1].todo : KeyRank(x) <= KeyRank(y)
       IN  tx' = <<[tx[1] EXCEPT !.msgs = StoreDeleteKeys(@, {m}),
                                 !.todo = @ \ {m}]>>
    /\ UNCHANGED <<convs, msgs, settingsStore, localKey, db, encryptionKey,
                   isInitialized, initDepth, nextKey, now, run, lastOp, lastArg,
                   lastErr, lastCount, deletedIds, tampered, written, pager,
                   snapshot, pending>>

\* the cursor is exhausted and the transaction completes
CommitDeleteConversation ==
    /\ tx # <<>>
    /\ tx[1].todo = {}
    /\ convs' = tx[1].convs
    /\ msgs' = tx[1].msgs
    /\ tx' = <<>>
    /\ Done("deleteConversation", tx[1].conversationId, "none",
            Cardinality(MessageIdsOf(tx[1].conversationId)))
    /\ deletedIds' = deletedIds \cup {tx[1].conversationId}
    /\ tampered' = tampered \ ({tx[1].conversationId}
                                \cup MessageIdsOf(tx[1].conversationId))
    /\ written' = StoreDeleteKeys(written,
                      {tx[1].conversationId}
                          \cup MessageIdsOf(tx[1].conversationId))
    /\ PagerSeesWrite
    /\ UNCHANGED <<settingsStore, localKey, db, encryptionKey, isInitialized,
                   initDepth, nextKey, now, run, snapshot, pending>>

\* a request of the transaction fails: the transaction aborts and the catch
\* block rethrows
AbortDeleteConversation ==
    /\ tx # <<>>
    /\ tx' = <<>>
    /\ Done("deleteConversation", tx[1].conversationId, "TransactionError", 0)
    /\ UNCHANGED <<convs, msgs, settingsStore, localKey, db, encryptionKey,
                   isInitialized, initDepth, nextKey, now, run, deletedIds,
                   tampered, written, pager, snapshot, pending>>

----------------------------------------------------------------------------
(* Messages *)

\* storeMessage(message): no look at the conversations store and none at the
\* storage statistics or maxStorageSize
StoredMessage(message) ==
    SealRecord([message EXCEPT
                   !.createdAt = IF message.createdAt # 0
                                 THEN message.createdAt ELSE now],
               MsgSensitive)

StoreMessage(message) ==
    /\ Ready
    /\ IF message.messageId = Undef
       THEN /\ Done("storeMessage", Undef, "DataError", 0)
            /\ UNCHANGED <<msgs, deletedIds, tampered, written>>
       ELSE /\ msgs' = StorePut(msgs, message.messageId, StoredMessage(message))
            /\ Done("storeMessage", message.messageId, "none", 1)
            /\ deletedIds' = deletedIds \ {message.conversationId}
            /\ tampered' = tampered \ {message.messageId}
            /\ written' = Remember(message.messageId, message, MsgSensitive)
    /\ UNCHANGED <<convs, settingsStore, localKey, db, encryptionKey, isInitialized,
                   initDepth, nextKey, now, run, pager, snapshot, tx, pending>>

\* storeMessage(message) step by step.  The method builds storedMessage and is
\* suspended at `await this.getSettings()`, a read of the settings store
\* only; other calls run until it resumes.  deletedBefore is history: the
\* conversations that were deleted when the call started.
BeginStoreMessage(message) ==
    /\ Ready
    /\ pending = <<>>
    /\ pending' = <<[op |-> "storeMessage",
                     message |-> [message EXCEPT
                                     !.createdAt = IF message.createdAt # 0
                                                   THEN message.createdAt
                                                   ELSE now],
                     deletedBefore |-> deletedIds]>>
    /\ UNCHANGED <<convs, msgs, settingsStore, localKey, db, encryptionKey,
                   isInitialized, initDepth, nextKey, now, run, lastOp, lastArg,
                   lastErr, lastCount, deletedIds, tampered, written, pager,
                   snapshot, tx>>

\* the settings arrive, the message is encrypted if they say so and
\* db.put(messages, storedMessage) writes it; the put waits while a readwrite
\* transaction over the messages store is live
FinishStoreMessage ==
    /\ Ready
    /\ tx = <<>>
    /\ pending # <<>>
    /\ pending[1].op = "storeMessage"
    /\ LET message == pending[1].message
       IN  /\ msgs' = StorePut(msgs, message.messageId,
                               SealRecord(message, MsgSensitive))
           /\ Done("storeMessage", message.messageId, "none", 1)
           /\ deletedIds' = deletedIds \ {message.conversationId}
           /\ tampered' = tampered \ {message.messageId}
           /\ written' = Remember(message.messageId, message, MsgSensitive)
    /\ pending' = <<>>
    /\ UNCHANGED <<convs, settingsStore, localKey, db, encryptionKey,
                   isInitialized, initDepth, nextKey, now, run, pager, snapshot,
                   tx>>

\* storeMessage(message) whose db.put is rejected because the engine aborts
\* its transaction: the rejection leaves the method at once, nothing is put
StoreMessageAborts(message) ==
    /\ Ready
    /\ Done("storeMessage", message.messageId, "TransactionError", 0)
    /\ UNCHANGED <<convs, msgs, settingsStore, localKey, db, encryptionKey,
                   isInitialized, initDepth, nextKey, now, run, deletedIds,
                   tampered, written, pager, snapshot, tx, pending>>

----------------------------------------------------------------------------
(* Settings and full clear *)

\* getSettings() as a call: it reads the record and writes nothing; what it
\* returns is GetSettings
GetSettingsCallWritesDefaults ==
    /\ Ready
    /\ settingsStore' = UpdatedSettingsStore(GetSettings)
    /\ Done("getSettings", Undef, "none", 0)
    /\ UNCHANGED <<convs, msgs, localKey, db, encryptionKey, isInitialized,
                   initDepth, nextKey, now, run, deletedIds, tampered, written,
                   pager, snapshot, tx, pending>>
GetSettingsCall ==
    /\ Ready
    /\ Done("getSettings", Undef, "none", 0)
    /\ UNCHANGED <<convs, msgs, settingsStore, localKey, db, encryptionKey,
                   isInitialized, initDepth, nextKey, now, run, deletedIds,
                   tampered, written, pager, snapshot, tx, pending>>

\* updateSettings(settings): the object passed becomes the whole record
UpdateSettings(settings) ==
    /\ Ready
    /\ settingsStore' = UpdatedSettingsStore(settings)
    /\ Done("updateSettings", Undef, "none", 0)
    /\ UNCHANGED <<convs, msgs, localKey, db, encryptionKey, isInitialized,
                   initDepth, nextKey, now, run, deletedIds, tampered, written,
                   pager, snapshot, tx, pending>>

\* clearAllData(): both record stores are cleared and the persisted key is
\* removed; the settings store is not touched
ClearAllData ==
    /\ Ready
    /\ convs' = EmptyStore
    /\ msgs' = EmptyStore
    /\ localKey' = NoKey
    /\ Done("clearAllData", Undef, "none",
            Cardinality(DOMAIN convs) + Cardinality(DOMAIN msgs))
    /\ deletedIds' = deletedIds \cup DOMAIN convs
    /\ tampered' = {}
    /\ written' = EmptyStore
    /\ PagerSeesWrite
    /\ UNCHANGED <<settingsStore, db, encryptionKey, isInitialized, initDepth,
                   nextKey, now, run, snapshot, tx, pending>>


----------------------------------------------------------------------------
(* Backup: exportData / importData *)

ExportLimit == 10000

RECURSIVE MessagesOfAll(_, _)
MessagesOfAll(conversations, n) ==
    IF n = 0 THEN <<>>
    ELSE MessagesOfAll(conversations, n - 1)
         \o GetMessagesByConversationId(conversations[n].conversationId)

\* exportData(): one page of up to 10000 conversations in the default order,
\* then the messages of each conversation of that page
ExportData ==
    LET conversationsData ==
            GetConversations(Undef, ExportLimit, "updatedAt", "desc")
    IN  [conversations |-> conversationsData.conversations,
         messages |-> MessagesOfAll(conversationsData.conversations,
                                    Len(conversationsData.conversations)),
         settings |-> <<GetSettings>>,
         exportDate |-> now]

ExportDataCallRecordsLastBackup ==
    /\ Ready
    /\ snapshot' = <<ExportData>>
    /\ settingsStore' = UpdatedSettingsStore(
                            [GetSettings EXCEPT !.lastBackup = now])
    /\ Done("exportData", Undef, "none", 0)
    /\ UNCHANGED <<convs, msgs, localKey, db, encryptionKey,
                   isInitialized, initDepth, nextKey, now, run, deletedIds,
                   tampered, written, pager, tx, pending>>
ExportDataCall ==
    /\ Ready
    /\ snapshot' = <<ExportData>>
    /\ Done("exportData", Undef, "none", 0)
    /\ UNCHANGED <<convs, msgs, settingsStore, localKey, db, encryptionKey,
                   isInitialized, initDepth, nextKey, now, run, deletedIds,
                   tampered, written, pager, tx, pending>>

\* the number of leading records of seq that db.put accepts
RECURSIVE Accepted(_, _, _)
Accepted(seq, idField, i) ==
    IF i > Len(seq) \/ seq[i][idField] = Undef THEN i - 1
    ELSE Accepted(seq, idField, i + 1)

RECURSIVE PutConversations(_, _, _)
PutConversations(store, seq, n) ==
    IF n = 0 THEN store
    ELSE StorePut(PutConversations(store, seq, n - 1), seq[n].conversationId,
                  StoredConversation(seq[n]))

RECURSIVE PutMessages(_, _, _)
PutMessages(store, seq, n) ==
    IF n = 0 THEN store
    ELSE StorePut(PutMessages(store, seq, n - 1), seq[n].messageId,
                  StoredMessage(seq[n]))

RECURSIVE RememberAll(_, _, _, _, _)
RememberAll(w, seq, n, idField, sensitive) ==
    IF n = 0 THEN w
    ELSE LET before == RememberAll(w, seq, n - 1, idField, sensitive)
         IN  IF GetSettings.encryptionEnabled /\ encryptionKey # NoKey
             THEN StorePut(before, seq[n][idField],
                           [f \in sensitive |-> seq[n][f]])
             ELSE StoreDeleteKeys(before, {seq[n][idField]})

\* importData(data): storeConversation for each conversation, storeMessage for
\* each message, updateSettings when the snapshot has settings; the first call
\* that throws ends the import (the catch rethrows), what was put stays put.
ImportData(data) ==
    LET nc   == Accepted(data.conversations, "conversationId", 1)
        allC == nc = Len(data.conversations)
        nm   == IF allC THEN Accepted(data.messages, "messageId", 1) ELSE 0
        allM == allC /\ nm = Len(data.messages)
        ids  == {data.conversations[i].conversationId : i \in 1..nc}
                \cup {data.messages[i].messageId : i \in 1..nm}
        revived == {data.conversations[i].conversationId : i \in 1..nc}
                   \cup {data.messages[i].conversationId : i \in 1..nm}
    IN  /\ Ready
        /\ convs' = PutConversations(convs, data.conversations, nc)
        /\ msgs' = PutMessages(msgs, data.messages, nm)
        /\ settingsStore' = IF allM /\ data.settings # <<>>
                            THEN UpdatedSettingsStore(data.settings[1])
                            ELSE settingsStore
        /\ Done("importData", Undef, IF allM THEN "none" ELSE "DataError", nc + nm)
        /\ deletedIds' = deletedIds \ revived
        /\ tampered' = tampered \ ids
        /\ written' = RememberAll(
                          RememberAll(written, data.conversations, nc,
                                      "conversationId", ConvSensitive),
                          data.messages, nm, "messageId", MsgSensitive)
        /\ PagerSeesWrite
        /\ UNCHANGED <<localKey, db, encryptionKey, isInitialized, initDepth,
                       nextKey, now, run, snapshot, tx, pending>>

----------------------------------------------------------------------------
(* The environment alters the stored ciphertext of one record.  AES-CBC    *)
(* without a MAC: the altered bytes either no longer unpad/decode/parse     *)
(* (intact = FALSE) or decrypt to some other well-formed JSON text.         *)

GarbleCiphertext(id) ==
    /\ id \in DOMAIN convs
    /\ convs[id].encryptedData # <<>>
    /\ id \notin tampered
    /\ convs' = [convs EXCEPT ![id].encryptedData = <<[@[1] EXCEPT !.intact = FALSE]>>]
    /\ tampered' = tampered \cup {id}
    /\ UNCHANGED <<msgs, settingsStore, localKey, db, encryptionKey, isInitialized,
                   initDepth, nextKey, now, run, lastOp, lastArg, lastErr, lastCount,
                   deletedIds, written, pager, snapshot, tx, pending>>

ForgeCiphertext(id, forged) ==
    /\ id \in DOMAIN convs
    /\ convs[id].encryptedData # <<>>
    /\ id \notin tampered
    /\ convs[id].encryptedData[1].intact
    /\ forged # convs[id].encryptedData[1].pt
    /\ convs' = [convs EXCEPT ![id].encryptedData = <<[@[1] EXCEPT !.pt = forged]>>]
    /\ tampered' = tampered \cup {id}
    /\ UNCHANGED <<msgs, settingsStore, localKey, db, encryptionKey, isInitialized,
                   initDepth, nextKey, now, run, lastOp, lastArg, lastErr, lastCount,
                   deletedIds, written, pager, snapshot, tx, pending>>

----------------------------------------------------------------------------
(* The facade over a storage engine that cannot be opened *)

\* facade functions whose catch block returns an empty or default value
FacadeCatches ==
    {"getMessagesByConvoId", "getConversations", "getConversationById",
     "searchConversations", "getStorageStats", "getStorageSettings"}

\* facade functions whose catch block logs and rethrows
FacadeRethrows ==
    {"updateConversation", "storeMessage", "deleteConversation",
     "createConversation", "exportAllData", "importAllData",
     "clearAllLocalData", "updateStorageSettings"}

\* A facade function called while nothing is initialized and openDB rejects:
\* the ClientStorage method's ensureInitialized() runs initializeStorage(),
\* which rethrows the rejection before the method touches a store, and the
\* facade's catch block decides what the caller gets.
FacadeCallEngineDown(op) ==
    /\ ~isInitialized
    /\ initDepth = 0
    /\ Done(op, Undef,
            IF op \in FacadeCatches THEN "none" ELSE "InitializationError", 0)
    /\ UNCHANGED <<convs, msgs, settingsStore, localKey, db, encryptionKey,
                   isInitialized, initDepth, nextKey, now, run, deletedIds,
                   tampered, written, pager, snapshot, tx, pending>>

----------------------------------------------------------------------------
(* A client that pages through the conversations by following nextCursor *)

PageIds(page) == [i \in 1..Len(page) |-> page[i].conversationId]

FirstPage(limit, sortBy, sortOrder) ==
    /\ Ready
    /\ LET r == GetConversations(Undef, limit, sortBy, sortOrder)
       IN  pager' = [active |-> TRUE, sortBy |-> sortBy, sortOrder |-> sortOrder,
                     limit |-> limit, cursor |-> r.nextCursor,
                     acc |-> PageIds(r.conversations),
                     done |-> r.nextCursor = Undef, clean |-> TRUE, calls |-> 1,
                     stable |-> {id \in DOMAIN convs : convs[id][sortBy] # 0},
                     named |-> {r.nextCursor} \ {Undef}]
    /\ Done("getConversations", Undef, "none", 0)
    /\ UNCHANGED <<convs, msgs, settingsStore, localKey, db, encryptionKey,
                   isInitialized, initDepth, nextKey, now, run, deletedIds,
                   tampered, written, snapshot, tx, pending>>

\* one getConversations call outside any page-by-page reading
GetConversationsCall(cursor, limit, sortBy, sortOrder) ==
    /\ Ready
    /\ Done("getConversations", cursor, "none",
            Len(GetConversations(cursor, limit, sortBy, sortOrder).conversations))
    /\ UNCHANGED <<convs, msgs, settingsStore, localKey, db, encryptionKey,
                   isInitialized, initDepth, nextKey, now, run, deletedIds,
                   tampered, written, pager, snapshot, tx, pending>>

NextPage ==
    /\ Ready
    /\ pager.active
    /\ ~pager.done
    /\ LET r == GetConversations(pager.cursor, pager.limit, pager.sortBy,
                                 pager.sortOrder)
       IN  pager' = [pager EXCEPT !.cursor = r.nextCursor,
                                  !.acc = @ \o PageIds(r.conversations),
                                  !.done = r.nextCursor = Undef,
                                  !.calls = @ + 1,
                                  !.named = @ \cup ({r.nextCursor} \ {Undef})]
    /\ Done("getConversations", Undef, "none", 0)
    /\ UNCHANGED <<convs, msgs, settingsStore, localKey, db, encryptionKey,
                   isInitialized, initDepth, nextKey, now, run, deletedIds,
                   tampered, written, snapshot, tx, pending>>


----------------------------------------------------------------------------
(* Inputs *)

SmallStorageSize == 500
PageLimits == {1, 2}
SortFields == {"createdAt", "updatedAt", "lastAccessed"}
SortOrders == {"asc", "desc"}

\* conversation objects a caller builds from scratch (createdAt is a required
\* member of TConversation, updatedAt may be left to storeConversation)
FreshConversations(ids, titles, prefixes, createds, updateds) ==
    {ConvObject(id, t, p, c, u, <<>>) :
        id \in ids, t \in titles, p \in prefixes, c \in createds, u \in updateds}

\* conversation objects a caller got from getConversation and passes back with
\* another title (the facade's updateConversation)
EditedConversations ==
    {[GetConversationResult(id)[1] EXCEPT !.title = t] :
        id \in DOMAIN convs, t \in Titles}

Messages(ids, conversationIds, texts) ==
    {MsgObject(id, c, t, Undef, 0, <<>>) :
        id \in ids, c \in conversationIds, t \in texts}

\* settings objects passed to updateSettings: one member changed, the rest
\* either spread from getSettings() or left out
\* the object {encryptionEnabled: b}: every other member is absent
OnlyEncryptionEnabled(b) ==
    [encryptionEnabled |-> b, backupEnabled |-> FALSE, masterKeyHash |-> 0,
     lastBackup |-> 0, maxStorageSize |-> 0]

EncryptionToggles ==
    {[GetSettings EXCEPT !.encryptionEnabled = b] : b \in BOOLEAN}
    \cup {OnlyEncryptionEnabled(b) : b \in BOOLEAN}

QuotaChanges ==
    {[GetSettings EXCEPT !.maxStorageSize = SmallStorageSize]}

ForgedPayloads == {[title |-> t] : t \in Titles}

\* hand-made backups: a conversation without id before, or after, a good one
BrokenSnapshots ==
    LET good == ConvObject("c1", "a", Undef, 1, 0, <<>>)
        bad  == ConvObject(Undef, "b", Undef, 1, 0, <<>>)
        m    == MsgObject("m1", "c1", "x", Undef, 0, <<>>)
    IN  {[conversations |-> cs, messages |-> <<m>>, settings |-> <<>>,
          exportDate |-> 0] : cs \in {<<bad, good>>, <<good, bad>>}}

\* backups whose settings section was exported while another key was in use
\* (an earlier run, another browser): no records, settings with that key's hash
SavedSnapshots ==
    {[conversations |-> <<>>, messages |-> <<>>,
      settings |-> <<[DefaultSettings EXCEPT !.encryptionEnabled = TRUE,
                                             !.masterKeyHash = SHA256(k)]>>,
      exportDate |-> 0] : k \in 1..MaxKeys}

----------------------------------------------------------------------------
(* Specifications.  Each starts from the constructed singleton and takes   *)
(* the operations of one area with the inputs that area needs.             *)

InitStep ==
    \/ OpenDBSucceeds
    \/ OpenDBFails
    \/ InitFrameResumes
    \/ EnsureInitialized

\* conversations, messages, cascading delete, clear, quota
Next ==
    \/ InitStep
    \/ \E c \in FreshConversations({"c1", "c2"}, {"a"}, {Undef}, {1}, {0}) :
          StoreConversation(c)
    \/ \E id \in {"c1", "c2"} : GetConversation(id)
    \/ \E id \in {"c1", "c2"} : DeleteConversation(id)
    \/ \E m \in Messages(MsgIds, {"c1", "c2"}, {"x"}) : StoreMessage(m)
    \/ \E s \in QuotaChanges : UpdateSettings(s)
    \/ ClearAllData
    \/ \E op \in FacadeCatches \cup FacadeRethrows : FacadeCallEngineDown(op)

Spec == Init /\ [][Next]_vars

\* encryption of the sensitive members across settings changes and reloads
NextCrypto ==
    \/ InitStep
    \/ Reload
    \/ \E c \in FreshConversations({"c1"}, Titles, {Undef} \cup Prefixes, {1}, {0}) :
          StoreConversation(c)
    \/ \E c \in EditedConversations : StoreConversation(c)
    \/ GetConversation("c1")
    \/ \E m \in Messages({"m1"}, {"c1"}, Texts) : StoreMessage(m)
    \/ \E s \in EncryptionToggles : UpdateSettings(s)

SpecCrypto == Init /\ [][NextCrypto]_vars

\* the same with stored ciphertext that gets altered
NextTamper ==
    \/ NextCrypto
    \/ GarbleCiphertext("c1")
    \/ \E f \in ForgedPayloads : ForgeCiphertext("c1", f)

SpecTamper == Init /\ [][NextTamper]_vars

\* backup and restore
NextBackup ==
    \/ InitStep
    \/ Reload
    \/ \E c \in FreshConversations({"c1", "c2"}, {"a"}, {Undef}, {1}, {0}) :
          StoreConversation(c)
    \/ \E m \in Messages({"m1"}, {"c1", "c2"}, {"x"}) : StoreMessage(m)
    \/ \E id \in {"c1"} : DeleteConversation(id)
    \/ ExportDataCall
    \/ snapshot # <<>> /\ ImportData(snapshot[1])
    \/ \E data \in BrokenSnapshots : ImportData(data)

SpecBackup == Init /\ [][NextBackup]_vars

\* initialization with an engine that works throughout the last run: openDB
\* resolves whenever it is awaited and a resumed frame runs to its end
NextInit ==
    \/ OpenDBSucceeds
    \/ run < MaxRuns /\ OpenDBFails
    \/ InitFrameResumes
    \/ EnsureInitialized
    \/ Reload
    \/ \E c \in FreshConversations({"c1", "c2"}, Titles, {Undef}, {1}, {0}) :
          StoreConversation(c)
    \/ \E m \in Messages({"m1", "m2"}, {"c1"}, {"x"}) : StoreMessage(m)

SpecInit ==
    /\ Init
    /\ [][NextInit]_vars
    /\ WF_vars(OpenDBSucceeds)
    /\ WF_vars(InitFrameResumes)

\* deleteConversation request by request, with the page going away at any
\* point and the other writers waiting for the transaction
NextDelete ==
    \/ InitStep
    \/ Reload
    \/ \E c \in FreshConversations({"c1", "c2"}, {"a"}, {Undef}, {1}, {0}) :
          tx = <<>> /\ StoreConversation(c)
    \/ \E m \in Messages({"m1", "m2"}, {"c1", "c2"}, {"x"}) :
          tx = <<>> /\ StoreMessage(m)
    \/ \E id \in {"c1", "c2"} : BeginDeleteConversation(id)
    \/ DeleteNextMessage
    \/ CommitDeleteConversation
    \/ AbortDeleteConversation
    \/ \E m \in Messages({"m1"}, {"c1"}, {"x"}) :
          tx = <<>> /\ StoreMessageAborts(m)

SpecDelete == Init /\ [][NextDelete]_vars

\* getConversation request by request while the same conversations are stored
\* again and deleted
NextGetRace ==
    \/ InitStep
    \/ Tick
    \/ \E c \in FreshConversations({"c1", "c2"}, Titles, {Undef}, {1}, {0}) :
          tx = <<>> /\ StoreConversation(c)
    \/ \E m \in Messages({"m1"}, {"c1"}, {"x"}) : tx = <<>> /\ StoreMessage(m)
    \/ \E id \in {"c1", "c2"} : BeginDeleteConversation(id)
    \/ DeleteNextMessage
    \/ CommitDeleteConversation
    \/ \E id \in ConvIds : BeginGetConversation(id)
    \/ FinishGetConversation

SpecGetRace == Init /\ [][NextGetRace]_vars

\* storeMessage step by step, started while no deleteConversation is in
\* progress, with deleteConversation running request by request
NextStoreRace ==
    \/ InitStep
    \/ \E c \in FreshConversations({"c1", "c2"}, {"a"}, {Undef}, {1}, {0}) :
          tx = <<>> /\ StoreConversation(c)
    \/ \E m \in Messages({"m1", "m2"}, {"c1", "c2"}, {"x"}) :
          tx = <<>> /\ BeginStoreMessage(m)
    \/ FinishStoreMessage
    \/ \E id \in {"c1", "c2"} : BeginDeleteConversation(id)
    \/ DeleteNextMessage
    \/ CommitDeleteConversation

SpecStoreRace == Init /\ [][NextStoreRace]_vars

\* the Settings record under updateSettings, imported settings and reloads
NextSettings ==
    \/ InitStep
    \/ Reload
    \/ \E c \in FreshConversations({"c1"}, Titles, {Undef}, {1}, {0}) :
          StoreConversation(c)
    \/ \E s \in EncryptionToggles : UpdateSettings(s)
    \/ \E data \in SavedSnapshots : ImportData(data)

SpecSettings == Init /\ [][NextSettings]_vars

\* one conversation and one message written at different times while the
\* encryption flag is switched off and on
NextFlag ==
    \/ InitStep
    \/ Tick
    \/ \E c \in FreshConversations({"c1"}, Titles, {Undef} \cup Prefixes, {1}, {0}) :
          StoreConversation(c)
    \/ \E m \in Messages({"m1"}, {"c1"}, Texts) : StoreMessage(m)
    \/ \E s \in EncryptionToggles : UpdateSettings(s)

SpecFlag == Init /\ [][NextFlag]_vars

\* a client following nextCursor to the end over conversations that are not
\* written while it does
NextPagingRun ==
    \/ InitStep
    \/ ~pager.active /\ Tick
    \/ \E c \in FreshConversations(ConvIds, {"a"}, {Undef}, {1, 2}, {0}) :
          ~pager.active /\ StoreConversation(c)
    \/ \E limit \in PageLimits, sortBy \in SortFields, sortOrder \in SortOrders :
          FirstPage(limit, sortBy, sortOrder)
    \/ NextPage

SpecPagingRun == Init /\ [][NextPagingRun]_vars

\* conversations stored and then read one by one at later times
NextGet ==
    \/ InitStep
    \/ Tick
    \/ \E c \in FreshConversations({"c1", "c2"}, Titles, {Undef} \cup Prefixes,
                                    {1}, {0}) :
          StoreConversation(c)
    \/ \E id \in ConvIds : GetConversation(id)
    \/ \E m \in Messages({"m1"}, {"c1"}, {"x"}) : StoreMessage(m)
    \/ GetSettingsCall

SpecGet == Init /\ [][NextGet]_vars

\* messages stored and stored again at different times
NextMessages ==
    \/ InitStep
    \/ Tick
    \/ \E m \in Messages(MsgIds, {"c1", "c2"}, {"x"}) : StoreMessage(m)
    \/ DeleteConversation("c1")

SpecMessages == Init /\ [][NextMessages]_vars

\* pagination with no write between the page reads: the conversations are
\* stored first, then a client reads page after page
NextPaging ==
    \/ InitStep
    \/ ~pager.active /\ Tick
    \/ \E c \in FreshConversations(ConvIds, {"a"}, {Undef}, {1, 2}, {0, 1}) :
          ~pager.active /\ StoreConversation(c)
    \/ \E limit \in PageLimits, sortBy \in SortFields, sortOrder \in SortOrders :
          FirstPage(limit, sortBy, sortOrder)
    \/ NextPage

SpecPaging == Init /\ [][NextPaging]_vars

\* single listing calls over conversations stored and read at different times
NextListing ==
    \/ InitStep
    \/ Tick
    \/ \E c \in FreshConversations(ConvIds, {"a"}, {Undef}, {1, 2}, {0}) :
          StoreConversation(c)
    \/ \E id \in {"c1", "c2"} : GetConversation(id)
    \/ \E cursor \in {Undef} \cup ConvIds :
          GetConversationsCall(cursor, 2, "updatedAt", "desc")

SpecListing == Init /\ [][NextListing]_vars

\* pagination with conversations stored and deleted between the page reads
NextPagingWrites ==
    \/ InitStep
    \/ \E c \in FreshConversations(ConvIds, {"a"}, {Undef}, {1}, {0}) :
          StoreConversation(c)
    \/ \E id \in ConvIds : DeleteConversation(id)
    \/ \E limit \in PageLimits, sortOrder \in SortOrders :
          FirstPage(limit, "createdAt", sortOrder)
    \/ NextPage

SpecPagingWrites == Init /\ [][NextPagingWrites]_vars


----------------------------------------------------------------------------
(* Properties *)

Occurrences(seq, x) == Cardinality({i \in 1..Len(seq) : seq[i] = x})

\* C1: with no write between the page reads, the pages obtained by following
\* nextCursor to the end hold every stored conversation exactly once.
C1_PagesCoverEveryConversationOnce ==
    (pager.active /\ pager.done /\ pager.clean)
        => /\ \A id \in DOMAIN convs : Occurrences(pager.acc, id) = 1
           /\ \A i \in 1..Len(pager.acc) : pager.acc[i] \in DOMAIN convs

MessageAsRead(messageId) ==
    LET listing == GetMessagesByConversationId(msgs[messageId].conversationId)
    IN  {listing[i] : i \in {j \in 1..Len(listing) : listing[j].messageId = messageId}}

\* C3: a record written with encryption enabled and a key loaded reads back,
\* in the same run, with the sensitive members that were passed to the writer.
C3_EncryptedPayloadReadsBack ==
    \A id \in (DOMAIN written) \ tampered :
        IF id \in DOMAIN convs
        THEN \A f \in ConvSensitive :
                 GetConversationResult(id)[1][f] = written[id][f]
        ELSE /\ id \in DOMAIN msgs
             /\ \A r \in MessageAsRead(id) :
                    \A f \in MsgSensitive : r[f] = written[id][f]
             /\ MessageAsRead(id) # {}

\* a conversation with both sensitive members set and a message were written
\* under encryption, and the conversation has just been read
C3_Witness ==
    /\ lastOp = "getConversation"
    /\ lastArg \in (DOMAIN written) \ tampered
    /\ written[lastArg].title \in Titles
    /\ written[lastArg].promptPrefix \in Prefixes
    /\ convs[lastArg].encryptedData # <<>>
    /\ convs[lastArg].title = Undef
    /\ "m1" \in DOMAIN written

\* C4: reading a record whose ciphertext was altered fails with an integrity
\* error (the checksum of the decrypted plaintext does not match the stored one).
C4_AlteredCiphertextIsAnIntegrityError ==
    (lastOp = "getConversation" /\ lastArg \in tampered)
        => lastErr = "IntegrityError"

\* C5: every stored message belongs to a stored conversation.
C5_NoDanglingMessages ==
    \A m \in DOMAIN msgs : msgs[m].conversationId \in DOMAIN convs

FullyEncrypted(rec, sensitive) ==
    /\ rec.encryptedData # <<>>
    /\ \A f \in sensitive : rec[f] = Undef

\* C6: a record stored while Settings.encryptionEnabled is true holds its
\* sensitive members only inside the blob, and reads back as it was passed.
C6_EncryptedWheneverEnabled ==
    /\ (lastOp = "storeConversation" /\ lastErr = "none"
        /\ GetSettings.encryptionEnabled)
          => /\ FullyEncrypted(convs[lastArg], ConvSensitive)
             /\ lastArg \in DOMAIN written
             /\ \A f \in ConvSensitive :
                    GetConversationResult(lastArg)[1][f] = written[lastArg][f]
    /\ (lastOp = "storeMessage" /\ lastErr = "none"
        /\ GetSettings.encryptionEnabled)
          => FullyEncrypted(msgs[lastArg], MsgSensitive)

\* C7: every stored record is fully plain or fully encrypted.
C7_NoPartialEncryption ==
    /\ \A id \in DOMAIN convs :
          convs[id].encryptedData = <<>> \/ FullyEncrypted(convs[id], ConvSensitive)
    /\ \A id \in DOMAIN msgs :
          msgs[id].encryptedData = <<>> \/ FullyEncrypted(msgs[id], MsgSensitive)

\* the store as the facade shows it, access time aside
FacadeView ==
    [conversations |->
        [id \in DOMAIN convs |->
            [GetConversationResult(id)[1] EXCEPT !.lastAccessed = 0]],
     messages |-> [c \in ConvIds |-> GetMessagesByConversationId(c)],
     counts |-> <<GetStorageStats.conversationCount, GetStorageStats.messageCount>>]

\* C8: importData(exportData()) leaves the record counts and every record as
\* read through the facade unchanged (and so does every further import of it).
C8_ImportOfExportChangesNothing ==
    [][ImportData(ExportData) => FacadeView' = FacadeView]_vars

GoodConversationIds(data) ==
    {data.conversations[i].conversationId : i \in 1..Len(data.conversations)}
        \ {Undef}

\* C9: an import in which one record cannot be stored still stores every other
\* record of the snapshot and returns instead of throwing.
C9_ImportToleratesRecordFailures ==
    [][\A data \in BrokenSnapshots :
          ImportData(data)
              => /\ lastErr' = "none"
                 /\ GoodConversationIds(data) \subseteq DOMAIN convs'
                 /\ \A i \in 1..Len(data.messages) :
                        data.messages[i].messageId \in DOMAIN msgs']_vars

\* C10: storeMessage with the estimated size not below maxStorageSize fails
\* with a quota error and leaves the messages store as it was.
C10_QuotaIsEnforced ==
    [][\A m \in Messages(MsgIds, {"c1", "c2"}, {"x"}) :
          (StoreMessage(m)
           /\ GetStorageStats.estimatedSizeBytes >= GetSettings.maxStorageSize)
              => /\ lastErr' = "QuotaExceededError"
                 /\ msgs' = msgs]_vars

\* C11: getMessagesByConversationId(c) holds exactly the stored messages whose
\* conversationId is c, each once and as the reader returns it, in ascending
\* order of createdAt, whatever the order in which they were stored.
C11_ListingIsTheConversationByCreatedAt ==
    Ready =>
        \A c \in ConvIds :
            LET listing == GetMessagesByConversationId(c)
            IN  /\ Len(listing) = Cardinality(MessageIdsOf(c))
                /\ \A m \in MessageIdsOf(c) :
                       \E i \in 1..Len(listing) :
                           listing[i] = ReadRecord(msgs[m], MsgSensitive)
                /\ \A i \in 1..Len(listing) : listing[i].conversationId = c
                /\ \A i, j \in 1..Len(listing) :
                       i < j => listing[i].createdAt <= listing[j].createdAt

\* a conversation holds two messages whose primary-key order is the reverse
\* of their createdAt order, next to a message of another conversation, and
\* the last call stored again a message that was already there
C11_Witness ==
    /\ Ready
    /\ {"m1", "m2", "m3"} \subseteq DOMAIN msgs
    /\ msgs["m1"].conversationId = "c1"
    /\ msgs["m2"].conversationId = "c1"
    /\ msgs["m3"].conversationId = "c2"
    /\ msgs["m1"].createdAt > msgs["m2"].createdAt
    /\ lastOp = "storeMessage"
    /\ lastArg = "m1"

\* a stored record whose blob the reader tries and fails to decrypt
Undecryptable(stored) ==
    /\ stored.encryptedData # <<>>
    /\ encryptionKey # NoKey
    /\ DecryptThrows(stored.encryptedData[1], encryptionKey)

\* C12: a record whose blob cannot be decrypted is either left out of the
\* listings or returned with an error marker, that is, as something other than
\* the raw stored record (the listings themselves never throw).
C12_UndecryptableIsOmittedOrMarked ==
    Ready =>
        /\ \A c \in ConvIds :
              LET listing == GetMessagesByConversationId(c)
              IN  \A i \in 1..Len(listing) :
                      Undecryptable(msgs[listing[i].messageId])
                          => listing[i] # msgs[listing[i].messageId]
        /\ LET page == GetConversations(Undef, ExportLimit, "updatedAt",
                                        "desc").conversations
           IN  \A i \in 1..Len(page) :
                   Undecryptable(convs[page[i].conversationId])
                       => page[i] # convs[page[i].conversationId]

C14_OneInitializationAtATime == initDepth <= 1

\* C15: with a storage engine that cannot be opened, the read functions of the
\* facade return an empty or default result and its write functions fail with
\* the initialization error.
C15_DegradedReadsReturnAndWritesFail ==
    (~isInitialized /\ initDepth = 0) =>
        /\ lastOp \in {"getMessagesByConvoId", "getConversations",
                        "getConversationById", "getStorageStats",
                        "getStorageSettings", "exportAllData"}
              => lastErr = "none"
        /\ lastOp \in {"storeMessage", "updateConversation", "createConversation",
                        "deleteConversation", "importAllData", "clearAllLocalData"}
              => lastErr = "InitializationError"

\* C16: with the persisted key and the Settings record left alone between
\* runs, the key a run loads decrypts every blob stored so far, those of the
\* first run included.
C16_EarlierRunsStillDecrypt ==
    (Ready /\ encryptionKey # NoKey) =>
        /\ \A id \in DOMAIN convs :
              convs[id].encryptedData # <<>>
                  => ~DecryptThrows(convs[id].encryptedData[1], encryptionKey)
        /\ \A id \in DOMAIN msgs :
              msgs[id].encryptedData # <<>>
                  => ~DecryptThrows(msgs[id].encryptedData[1], encryptionKey)

\* C17: the nextCursor a page comes with is the conversationId of the last
\* conversation of that page.
C17_NextCursorIsLastOfPage ==
    (pager.active /\ pager.cursor # Undef) =>
        /\ pager.acc # <<>>
        /\ pager.cursor = pager.acc[Len(pager.acc)]

\* C18: the snapshot exportData returns holds every stored conversation and
\* every stored message (also a message whose conversation has no record),
\* each without a blob, and the current Settings.
C18_SnapshotIsCompleteAndDecrypted ==
    (lastOp = "exportData" /\ snapshot # <<>>) =>
        LET data == snapshot[1]
        IN  /\ \A id \in DOMAIN convs :
                  \E i \in 1..Len(data.conversations) :
                      data.conversations[i].conversationId = id
            /\ \A id \in DOMAIN msgs :
                  \E i \in 1..Len(data.messages) :
                      data.messages[i].messageId = id
            /\ \A i \in 1..Len(data.conversations) :
                  data.conversations[i].encryptedData = <<>>
            /\ \A i \in 1..Len(data.messages) :
                  data.messages[i].encryptedData = <<>>
            /\ data.settings = <<GetSettings>>

\* C19: no step, be it a request of deleteConversation, an operation that runs
\* while it is in progress, or the page going away in the middle of it, takes
\* a conversation record out of the store and leaves a message of that
\* conversation in it.
C19_DeleteIsOneAtomicTransaction ==
    [][\A c \in ConvIds :
          (c \in DOMAIN convs /\ c \notin DOMAIN convs')
              => \A m \in DOMAIN msgs' : msgs'[m].conversationId # c]_vars

\* a deleteConversation has removed the record and both messages of its
\* conversation inside its transaction, which has not completed yet: the
\* stores still hold all three
C19_Witness ==
    /\ tx # <<>>
    /\ tx[1].todo = {}
    /\ tx[1].conversationId \in DOMAIN convs
    /\ tx[1].conversationId \notin DOMAIN tx[1].convs
    /\ Cardinality(MessageIdsOf(tx[1].conversationId)) = 2
    /\ Cardinality(DOMAIN tx[1].msgs) = Cardinality(DOMAIN msgs) - 2

\* C20: when the pages have been followed to the end, with conversations
\* stored and deleted in between, every conversation that was there all the
\* time with the same sort key is in exactly one page.  Conversations whose
\* id came back as a nextCursor are left aside here: those are lost even
\* without any write (C1, C17).
C20_StableConversationsAreReturnedOnce ==
    (pager.active /\ pager.done) =>
        \A id \in pager.stable \ pager.named : Occurrences(pager.acc, id) = 1

\* C21: updateSettings with an object that holds only some members changes
\* only those: the key hash, maxStorageSize, lastBackup and backupEnabled of
\* the Settings record stay as they were.
C21_PartialUpdateKeepsOtherFields ==
    [][\A b \in BOOLEAN :
          UpdateSettings(OnlyEncryptionEnabled(b))
              => /\ GetSettings'.encryptionEnabled = b
                 /\ GetSettings'.masterKeyHash = GetSettings.masterKeyHash
                 /\ GetSettings'.maxStorageSize = GetSettings.maxStorageSize
                 /\ GetSettings'.lastBackup = GetSettings.lastBackup
                 /\ GetSettings'.backupEnabled = GetSettings.backupEnabled]_vars

\* C22: every storeConversation that stores a record gives it updatedAt and
\* lastAccessed equal to the time of the call, also when the object passed
\* carries an older updatedAt.
C22_StoreStampsUpdatedAtAndLastAccessed ==
    [][\A c \in FreshConversations(ConvIds, {"a"}, {Undef}, {1, 2}, {0, 1}) :
          StoreConversation(c)
              => /\ convs'[c.conversationId].updatedAt = now
                 /\ convs'[c.conversationId].lastAccessed = now]_vars

C24_ConversationIdsAreUniqueAndStable ==
    [][/\ \A id \in ConvIds :
             Cardinality({k \in DOMAIN convs' :
                             convs'[k].conversationId = id}) <= 1
       /\ \A c \in FreshConversations({"c1", "c2"}, {"a"}, {Undef}, {1}, {0}) :
             (StoreConversation(c) /\ c.conversationId \in DOMAIN convs)
                 => Cardinality(DOMAIN convs') = Cardinality(DOMAIN convs)
       /\ (snapshot # <<>> /\ ImportData(snapshot[1]))
             => Cardinality(DOMAIN convs')
                   = Cardinality(DOMAIN convs \cup
                        {snapshot[1].conversations[i].conversationId :
                            i \in 1..Len(snapshot[1].conversations)})
       /\ \A k \in DOMAIN convs \cap DOMAIN convs' :
             convs'[k].conversationId = convs[k].conversationId]_vars

\* an import has just stored two conversations over the two records that
\* were already there under the same ids
C24_Witness ==
    /\ lastOp = "importData"
    /\ lastErr = "none"
    /\ snapshot # <<>>
    /\ Len(snapshot[1].conversations) = 2
    /\ lastCount >= 2
    /\ Cardinality(DOMAIN convs) = 2

\* C25: an operation whose transaction the engine aborts is tried again, so
\* the abort of its first attempt is not what the caller gets.
C25_FirstAbortIsRetried ==
    [][/\ AbortDeleteConversation => lastErr' # "TransactionError"
       /\ \A m \in Messages({"m1"}, {"c1"}, {"x"}) :
             StoreMessageAborts(m) => lastErr' # "TransactionError"]_vars

C27_ClearAlsoDeletesSettings ==
    (lastOp = "clearAllData" /\ lastErr = "none") =>
        /\ GetStorageStats.conversationCount = 0
        /\ GetStorageStats.messageCount = 0
        /\ "global" \notin DOMAIN settingsStore
        /\ GetSettings = DefaultSettings

\* where id stands in a sequence of ids (0 when it is not there)
PositionIn(seq, id) ==
    IF \E i \in 1..Len(seq) : seq[i] = id
    THEN CHOOSE i \in 1..Len(seq) : seq[i] = id ELSE 0

\* C28: getConversations with the id of a stored conversation as cursor
\* returns the conversations that follow it in index order, from its
\* immediate successor on, as many as the limit allows; the cursor's
\* conversation and those before it are not returned.
C28_PageStartsAfterTheCursor ==
    Ready =>
        \A X \in DOMAIN convs, limit \in PageLimits, sortBy \in SortFields,
           sortOrder \in SortOrders :
            LET idx  == IndexCursor(sortBy, sortOrder)
                pos  == PositionIn(idx, X)
                last == IF pos + limit < Len(idx) THEN pos + limit ELSE Len(idx)
                page == GetConversations(X, limit, sortBy, sortOrder).conversations
            IN  /\ pos > 0
                /\ PageIds(page) = SubSeq(idx, pos + 1, last)
                /\ \A i \in 1..Len(page) :
                       PositionIn(idx, page[i].conversationId) > pos

\* three conversations are stored with different creation times, and a call
\* with a stored cursor has just returned the two conversations behind it
C28_Witness ==
    /\ lastOp = "getConversations"
    /\ lastArg \in DOMAIN convs
    /\ lastCount = 2
    /\ Cardinality(DOMAIN convs) = 3
    /\ \E x, y \in DOMAIN convs : convs[x].createdAt # convs[y].createdAt
    /\ \E x, y \in DOMAIN convs : convs[x].lastAccessed # convs[y].lastAccessed

\* C29: a page holds at most limit conversations, in the order of the chosen
\* sort field: never increasing for desc, never decreasing for asc.
C29_PageIsBoundedAndOrdered ==
    Ready =>
        \A cursor \in {Undef} \cup DOMAIN convs, limit \in PageLimits,
           sortBy \in SortFields, sortOrder \in SortOrders :
            LET page == GetConversations(cursor, limit, sortBy,
                                         sortOrder).conversations
            IN  /\ Len(page) <= limit
                /\ \A i, j \in 1..Len(page) :
                       i < j => IF sortOrder = "desc"
                                THEN page[i][sortBy] >= page[j][sortBy]
                                ELSE page[i][sortBy] <= page[j][sortBy]

\* a call without cursor has just returned a full page of two while three
\* conversations with different update times are stored
C29_Witness ==
    /\ lastOp = "getConversations"
    /\ lastArg = Undef
    /\ lastCount = 2
    /\ Cardinality(DOMAIN convs) = 3
    /\ \E x, y \in DOMAIN convs : convs[x].updatedAt # convs[y].updatedAt

\* C30: a getConversation that is suspended between its get and its put while
\* the same conversation is deleted or stored again does not undo that write:
\* when the get completes, a conversation that is no longer stored stays
\* absent, and one that is stored keeps the content it has, only its
\* lastAccessed changing.
C30_GetNeverUndoesAWrite ==
    [][(pending # <<>> /\ pending' = <<>> /\ lastOp' = "getConversation") =>
          LET id == pending[1].conversationId
          IN  IF id \in DOMAIN convs
              THEN /\ id \in DOMAIN convs'
                   /\ convs'[id] = [convs[id] EXCEPT
                                       !.lastAccessed = convs'[id].lastAccessed]
              ELSE id \notin DOMAIN convs']_vars

\* C31: a storeMessage for conversation c that was started before
\* deleteConversation(c) and completes after it leaves no message of c in the
\* messages store.
C31_StoreBeforeDeleteLeavesNoMessage ==
    [][(/\ pending # <<>>
        /\ pending[1].op = "storeMessage"
        /\ pending' = <<>>
        /\ lastOp' = "storeMessage"
        /\ pending[1].message.conversationId
               \in deletedIds \ pending[1].deletedBefore) =>
          \A m \in DOMAIN msgs' :
              msgs'[m].conversationId # pending[1].message.conversationId]_vars

\* C32: whenever the storage is initialized with a key in memory, the key
\* hash recorded in Settings is the hash of that key.
C32_SettingsHashMatchesLoadedKey ==
    (Ready /\ encryptionKey # NoKey) =>
        GetSettings.masterKeyHash = SHA256(encryptionKey)

\* C33: when the Settings record says encryptionEnabled = false (the user
\* switched it off with updateSettings), the initialization of a later run
\* leaves the record as it is and generates no key.
C33_InitializationKeepsTheToggleOff ==
    [][(/\ run > 1
        /\ lastOp' = "initializeStorage"
        /\ "global" \in DOMAIN settingsStore
        /\ ~settingsStore["global"].encryptionEnabled) =>
          (settingsStore' = settingsStore /\ nextKey' = nextKey)]_vars

\* the conversation as the listing of getConversations returns it
ConversationAsListed(conversationId) ==
    LET listing == GetConversations(Undef, ExportLimit, "updatedAt",
                                    "desc").conversations
    IN  {listing[i] : i \in {j \in 1..Len(listing) :
                                listing[j].conversationId = conversationId}}

\* C34: within a run with a key in memory, whatever encryptionEnabled says
\* now, a record written under encryption is read back with the sensitive
\* values it was written with, and a record written in plaintext is read back
\* as it is stored, by getConversation, getConversations and
\* getMessagesByConversationId alike.
C34_ReadersIgnoreTheCurrentFlag ==
    (Ready /\ encryptionKey # NoKey) =>
        /\ \A id \in DOMAIN convs :
               LET original == IF id \in DOMAIN written THEN written[id]
                               ELSE convs[id]
               IN  (id \in DOMAIN written \/ convs[id].encryptedData = <<>>) =>
                       /\ ConversationAsListed(id) # {}
                       /\ \A r \in {GetConversationResult(id)[1]}
                                   \cup ConversationAsListed(id) :
                              \A f \in ConvSensitive : r[f] = original[f]
        /\ \A id \in DOMAIN msgs :
               LET original == IF id \in DOMAIN written THEN written[id]
                               ELSE msgs[id]
               IN  (id \in DOMAIN written \/ msgs[id].encryptedData = <<>>) =>
                       /\ MessageAsRead(id) # {}
                       /\ \A r \in MessageAsRead(id) :
                              \A f \in MsgSensitive : r[f] = original[f]

\* the conversation was written under encryption, the flag was switched off,
\* the message was written in plaintext at a later time, and the flag has
\* just been switched on again
C34_Witness ==
    /\ Ready
    /\ encryptionKey # NoKey
    /\ lastOp = "updateSettings"
    /\ GetSettings.encryptionEnabled
    /\ "c1" \in DOMAIN written
    /\ convs["c1"].encryptedData # <<>>
    /\ written["c1"].title \in Titles
    /\ "m1" \in DOMAIN msgs
    /\ msgs["m1"].encryptedData = <<>>
    /\ msgs["m1"].text \in Texts
    /\ convs["c1"].updatedAt < msgs["m1"].createdAt

\* the ids of the records of a snapshot section that have one
SnapshotIds(seq, idField) ==
    {seq[i][idField] : i \in 1..Len(seq)} \ {Undef}

\* C35: importData upserts exactly the snapshot's records: stored records
\* whose id is not in the snapshot are unchanged, none is deleted, none
\* appears that the snapshot does not list, and afterwards every snapshot
\* record that has an id is read back with the snapshot's sensitive values.
C35_ImportUpsertsExactlyTheSnapshot ==
    [][\A data \in BrokenSnapshots
                    \cup (IF snapshot # <<>> THEN {snapshot[1]} ELSE {}) :
          ImportData(data) =>
            LET cids == SnapshotIds(data.conversations, "conversationId")
                mids == SnapshotIds(data.messages, "messageId")
            IN  /\ DOMAIN convs' = DOMAIN convs \cup cids
                /\ DOMAIN msgs' = DOMAIN msgs \cup mids
                /\ \A k \in DOMAIN convs \ cids : convs'[k] = convs[k]
                /\ \A k \in DOMAIN msgs \ mids : msgs'[k] = msgs[k]
                /\ \A i \in 1..Len(data.conversations) :
                       LET c == data.conversations[i]
                       IN  c.conversationId # Undef =>
                             \A f \in ConvSensitive :
                                 GetConversationResult(c.conversationId)'[1][f]
                                     = c[f]
                /\ \A i \in 1..Len(data.messages) :
                       LET m == data.messages[i]
                       IN  m.messageId # Undef =>
                             \A r \in MessageAsRead(m.messageId)' :
                                 \A f \in MsgSensitive : r[f] = m[f]]_vars

C37_PaginationEndsWithinBound ==
    [][/\ (pager'.active /\ pager'.clean) =>
             /\ pager'.calls <= Cardinality(DOMAIN convs') + 1
             /\ (pager'.calls = 1 /\ pager'.cursor # Undef)
                    => pager'.acc # <<>>
       /\ (/\ pager.active /\ pager.clean
           /\ pager'.active /\ pager'.clean
           /\ pager'.calls = pager.calls + 1
           /\ pager'.cursor # Undef)
             => Len(pager'.acc) > Len(pager.acc)]_vars

\* three conversations are stored and a client asking for one conversation at
\* a time has just received, with its second call, a page without nextCursor
C37_Witness ==
    /\ pager.active
    /\ pager.clean
    /\ pager.done
    /\ pager.limit = 1
    /\ pager.calls = 2
    /\ pager.acc # <<>>
    /\ Cardinality(DOMAIN convs) = 3
    /\ lastOp = "getConversations"

====
